---- MODULE Spec2Model ----
(***************************************************************************)
(* Model of the agentic retrieval-augmented answer loop of app/agentic_rag *)
(* (retrieve -> draft -> critique -> {refine -> retrieve | finalize}) and  *)
(* of its entry point agentic_rag_query.                                   *)
(*                                                                         *)
(* One request is modelled.  The graph state (AgentState) is the set of    *)
(* variables below; every node of the graph is one action.  The answers of *)
(* the retrieval and generation backends are inputs drawn with \E.         *)
(*                                                                         *)
(* The single-pass variant of app/rag (rag_query, rag_query_stream) is a   *)
(* second specification, SpecRag, over its own variables; each of the two  *)
(* specifications leaves the other's variables fixed.  SpecCancel is the   *)
(* loop with a caller that may abandon the request, and SpecPair runs two  *)
(* agentic requests at the same time.                                      *)
(***************************************************************************)
EXTENDS Integers, Sequences, FiniteSets, TLC

(***************************************************************************)
(* Bounds of the model.                                                    *)
(***************************************************************************)
\* largest max_loops a request is started with (ChatRequest allows 1..5)
MaxLoops == 3
\* largest number of results one retrieval pass returns (top_k)
MaxTopK == 2
\* RETRIEVE is never entered more often than this in the model
MaxPasses == MaxLoops + 3

(***************************************************************************)
(* Data.                                                                   *)
(***************************************************************************)
\* absent value (Python None / missing key)
None == "None"

\* (source, chunk_id) identities of the chunks in the index
ChunkKeys == { <<"s1", "c1">>, <<"s2", "c1">> }

\* the user's question and a query rewritten by the critique backend
Question == "q0"
Rewritten == "q1"

\* fixed answer texts of the code, and abstract backend texts
NotFoundAnswer == "not_found"          \* '未能找到相关信息。'
DraftErrorAnswer == "draft_error"      \* '生成回答时出错: ...'
RequestErrorAnswer == "request_error"  \* 'Agentic RAG 执行出错: ...'
RawText == "raw_text"                  \* response.content of the draft call
FencedText == "fenced_text"            \* content after stripping a ``` fence
ModelAnswer == "model_answer"          \* result['answer']
FallbackText == "fallback_text"        \* response.content of the fallback call
NotReadyAnswer == "not_ready"          \* '抱歉，知识库尚未初始化。请先上传文档并执行入库操作。'

\* sequences over S of length at most n
RECURSIVE SeqsUpTo(_, _)
SeqsUpTo(S, n) ==
    IF n = 0 THEN { <<>> }
    ELSE LET shorter == SeqsUpTo(S, n - 1)
         IN shorter \cup { Append(s, x) : s \in { t \in shorter : Len(t) = n - 1 },
                                          x \in S}

Injective(s) == \A i, j \in DOMAIN s : s[i] = s[j] => i = j

\* what search_similar / search_mmr can return: at most top_k distinct chunks
\* of the index, in ranked order; the empty list when the index is not built
\* or the backend raises
SearchResults == { s \in SeqsUpTo(ChunkKeys, MaxTopK) : Injective(s) }

VARIABLES
    pc,               \* position of the request
    config_ok,        \* environment: get_rag_config() parses
    llm_ok,           \* environment: get_llm() can build a client
    max_loops,
    original_query,
    current_query,
    retrieved_chunks,
    all_sources,
    draft_answer,
    claims,
    critique_result,
    decision,
    refined_query,
    gaps,
    loop_count,
    final_answer,
    confidence,
    reasoning_trace,
    response,         \* what agentic_rag_query returned
    retrieve_calls,   \* number of search_similar / search_mmr calls so far
    llm_calls,        \* number of llm.invoke calls so far
    critique_path,    \* branch of critique_node taken by the latest CRITIQUE
    index_built,      \* environment: get_vectorstore() returns a store
    search_path,      \* branch of search_similar / search_mmr in the latest RETRIEVE
    draft_path,       \* branch of draft_node taken by the latest DRAFT
    finalize_path,    \* branch of finalize_node taken by FINALIZE
    fallback_context, \* the snippets FINALIZE put into the fallback prompt
    search_query,     \* the query handed to the latest search call
    llm_question,     \* the question handed to the latest llm.invoke call
    abandoned,        \* the caller has given up waiting for the response
    \* one request of the single-pass variant (rag_query / rag_query_stream)
    rpc,              \* position of the single-pass request
    r_stream,         \* TRUE: rag_query_stream, FALSE: rag_query
    r_ready,          \* environment: is_vectorstore_ready()
    r_mode,           \* answer_mode
    r_min_score,      \* config['min_score'], in hundredths
    r_min_sources,    \* config['min_sources']
    r_docs,           \* retrieved_docs: the scores, in hundredths, in rank order
    r_confidence,
    r_need_fallback,
    r_answer,         \* which text became the answer
    r_result,         \* how the request ended
    r_search_calls,   \* number of search_similar / search_mmr calls
    r_llm_calls,      \* number of generation calls
    r_text,           \* the answer text so far, as the list of its pieces
    r_pending,        \* rag_query_stream: characters of a fixed text still to send
    r_events,         \* rag_query_stream: the events yielded so far
    r_sources,        \* sources = extract_sources(retrieved_docs)
    \* two agentic requests running at the same time
    p_graph,          \* the module global _agentic_graph
    p_pc,             \* position of each request's agentic_rag_query call
    p_max_loops,      \* max_loops of each request
    p_state,          \* the graph state of each graph.invoke call
    p_log,            \* the backend answers each request has received
    p_response,       \* what each agentic_rag_query call returned
    \* the vector store
    s_vectorstore,    \* the module global _vectorstore
    s_is_ready,       \* the module global _is_ready
    s_persisted,      \* chroma.sqlite3 exists in the persisted directory
    s_last,           \* the last call and the path it took
    s_results,        \* what the last search call returned
    s_mmr             \* what the backend did in the last search_mmr call

loopVars == << pc, config_ok, llm_ok, max_loops, original_query, current_query,
               retrieved_chunks, all_sources, draft_answer, claims,
               critique_result, decision, refined_query, gaps, loop_count,
               final_answer, confidence, reasoning_trace, response,
               retrieve_calls, llm_calls, critique_path, index_built,
               search_path, draft_path, finalize_path, fallback_context,
               search_query, llm_question, abandoned >>

ragVars == << rpc, r_stream, r_ready, r_mode, r_min_score, r_min_sources,
              r_docs, r_confidence, r_need_fallback, r_answer, r_result,
              r_search_calls, r_llm_calls, r_text, r_pending, r_events,
              r_sources >>

pairVars == << p_graph, p_pc, p_max_loops, p_state, p_log, p_response >>

storeVars == << s_vectorstore, s_is_ready, s_persisted, s_last, s_results,
                s_mmr >>

vars == << loopVars, ragVars, pairVars, storeVars >>

(***************************************************************************)
(* Helpers of the nodes.                                                   *)
(***************************************************************************)
\* one reasoning_trace entry; a field the step does not write is None / <<>>
TraceEntry(step, query, dec, loop, err) ==
    [step |-> step, query |-> query, decision |-> dec, loop |-> loop, error |-> err]

\* retrieve_node: the chunk_info records built from the results
ChunksOf(results) ==
    [i \in 1..Len(results) |->
        [source |-> results[i][1], chunk_id |-> results[i][2]]]

\* retrieve_node: the entries appended to all_sources
SourcesOf(results) ==
    [i \in 1..Len(results) |->
        [source |-> results[i][1], chunk_id |-> results[i][2], rank |-> i]]

\* variant: all_sources without the add reducer (a node's value replaces it)
ReduceSources_Replace(old, new) == new

\* AgentState.all_sources is Annotated[List, add]: a node's value is appended
ReduceSources(old, new) == old \o new

\* AgentState.reasoning_trace carries no reducer: a node's value replaces it
ReduceTrace(old, new) == new

NoResponse ==
    [path |-> "none", answer |-> "", sources |-> <<>>, confidence |-> "",
     reasoning_trace |-> <<>>, loops_used |-> 0]

\* the except branch of agentic_rag_query
ErrorResponse ==
    [path |-> "error", answer |-> RequestErrorAnswer, sources |-> <<>>,
     confidence |-> "low",
     reasoning_trace |-> << [step |-> "error", query |-> None,
                             decision |-> None, loop |-> <<>>] >>,
     loops_used |-> 0]

(***************************************************************************)
(* Init: the state when agentic_rag_query is called.  The graph state is   *)
(* the initial_state literal of agentic_rag_query.                         *)
(***************************************************************************)
\* the single-pass variables while no single-pass request runs
RagIdle ==
    /\ rpc = "off"
    /\ r_stream = FALSE
    /\ r_ready = FALSE
    /\ r_mode = "strict"
    /\ r_min_score = 0
    /\ r_min_sources = 0
    /\ r_docs = <<>>
    /\ r_confidence = "none"
    /\ r_need_fallback = FALSE
    /\ r_answer = "none"
    /\ r_result = "none"
    /\ r_search_calls = 0
    /\ r_llm_calls = 0
    /\ r_text = <<>>
    /\ r_pending = <<>>
    /\ r_events = <<>>
    /\ r_sources = <<>>

\* the two-request variables while no pair of requests runs
PairIdle ==
    /\ p_graph = None
    /\ p_pc = <<>>
    /\ p_max_loops = <<>>
    /\ p_state = <<>>
    /\ p_log = <<>>
    /\ p_response = <<>>

\* no call yet, and no search_mmr backend outcome
NoCall == [op |-> "none", path |-> "none"]

NoMmr == [kind |-> "none", docs |-> <<>>, embed |-> "none", lookups |-> <<>>]

\* the store variables while no store call is modelled
StoreIdle ==
    /\ s_vectorstore = None
    /\ s_is_ready = FALSE
    /\ s_persisted = FALSE
    /\ s_last = NoCall
    /\ s_results = <<>>
    /\ s_mmr = NoMmr

Init ==
    /\ RagIdle
    /\ PairIdle
    /\ StoreIdle
    /\ pc = "init"
    /\ config_ok \in BOOLEAN
    /\ llm_ok \in BOOLEAN
    /\ max_loops \in 1..MaxLoops
    /\ original_query = Question
    /\ current_query = Question
    /\ retrieved_chunks = <<>>
    /\ all_sources = <<>>
    /\ draft_answer = ""
    /\ claims = <<>>
    /\ critique_result = [decision |-> None, confidence |-> None]
    /\ decision = ""
    /\ refined_query = None
    /\ gaps = <<>>
    /\ loop_count = 0
    /\ final_answer = ""
    /\ confidence = "medium"
    /\ reasoning_trace = <<>>
    /\ response = NoResponse
    /\ retrieve_calls = 0
    /\ llm_calls = 0
    /\ critique_path = "none"
    /\ index_built \in BOOLEAN
    /\ search_path = "none"
    /\ draft_path = "none"
    /\ finalize_path = "none"
    /\ fallback_context = <<>>
    /\ search_query = None
    /\ llm_question = None
    /\ abandoned = FALSE

\* the query each step hands to its backend, given the original and the
\* current query of the state
\* retrieve_node: search_similar(state['current_query'], ...)
RetrieveQuery(oq, cq) == cq

\* variant: the draft is asked the rewritten retrieval query
DraftQuestion_Current(oq, cq) == cq

\* draft_node: question=state['original_query']
DraftQuestion(oq, cq) == oq

\* critique_node: question=state['original_query']
CritiqueQuestion(oq, cq) == oq

\* finalize_node: question=state['original_query']
FallbackQuestion(oq, cq) == oq

\* agentic_rag_query up to graph.invoke: get_rag_config() is read before the try
Start ==
    /\ pc = "init"
    /\ pc' = IF config_ok THEN "retrieve" ELSE "raised"
    /\ UNCHANGED << ragVars, pairVars, storeVars >>
    /\ UNCHANGED << index_built, config_ok, llm_ok, max_loops, original_query, current_query,
                    retrieved_chunks, all_sources, draft_answer, claims,
                    critique_result, decision, refined_query, gaps, loop_count,
                    final_answer, confidence, reasoning_trace, response,
                    retrieve_calls, llm_calls, critique_path >>
    /\ UNCHANGED << search_path, draft_path, finalize_path, fallback_context >>
    /\ UNCHANGED << search_query, llm_question, abandoned >>

\* what one search call meets: no store (get_vectorstore() returned None), a
\* backend call that raises, or a backend call that returns a ranked list
SearchOutcomes(built) ==
    IF ~built
    THEN [kind : {"not_built"}, docs : {<<>>}]
    ELSE [kind : {"raised", "ok"}, docs : SearchResults]

\* variant: the except branch hands back what was collected before the failure
search_KeepsPartial(o) ==
    CASE o.kind = "not_built" -> <<>>
      [] OTHER -> o.docs

\* search_similar / search_mmr: the list handed back to the caller (for a
\* call that raises, o.docs is what had been collected before the failure)
search(o) ==
    CASE o.kind = "not_built" -> <<>>
      [] o.kind = "raised" -> <<>>
      [] OTHER -> o.docs

\* retrieve_node
Retrieve ==
    /\ pc = "retrieve"
    /\ retrieve_calls < MaxPasses
    /\ \E o \in SearchOutcomes(index_built) :
         LET results == search(o) IN
         /\ search_path' = o.kind
         /\ retrieved_chunks' = ChunksOf(results)
         /\ all_sources' = ReduceSources(all_sources, SourcesOf(results))
         /\ reasoning_trace' =
                ReduceTrace(reasoning_trace,
                            << TraceEntry("retrieve", current_query, None, <<>>, None) >>)
    /\ search_query' = RetrieveQuery(original_query, current_query)
    /\ retrieve_calls' = retrieve_calls + 1
    /\ pc' = "draft"
    /\ UNCHANGED << ragVars, pairVars, storeVars >>
    /\ UNCHANGED << index_built, config_ok, llm_ok, max_loops, original_query, current_query,
                    draft_answer, claims, critique_result, decision,
                    refined_query, gaps, loop_count, final_answer, confidence,
                    response, llm_calls, critique_path >>
    /\ UNCHANGED << draft_path, finalize_path, fallback_context >>
    /\ UNCHANGED << llm_question, abandoned >>

(***************************************************************************)
(* draft_node                                                              *)
(***************************************************************************)
\* what the draft call can do: llm.invoke raises, or answers with text that
\* is not JSON, JSON that is not an object, or an object whose "answer" is
\* present or absent and whose "claims" is absent, an empty list, a
\* non-empty list, or a value len() rejects
DraftOutcomes ==
    [kind : {"invoke_error", "json_error", "not_object"},
     answer : {"absent"}, claims : {"absent"}]
    \cup
    [kind : {"object"}, answer : {"absent", "present"},
     claims : {"absent", "empty", "some", "unsized"}]

\* draft_answer and claims returned by draft_node for one backend outcome
DraftResult(o) ==
    CASE o.kind = "invoke_error" ->
            [draft_answer |-> DraftErrorAnswer, claims |-> <<>>]
      [] o.kind = "json_error" ->
            [draft_answer |-> RawText, claims |-> <<>>]
      [] o.kind = "not_object" ->
            \* result.get raises AttributeError: the outer except answers
            [draft_answer |-> DraftErrorAnswer, claims |-> <<>>]
      [] o.kind = "object" /\ o.claims = "unsized" ->
            \* len(claims) raises TypeError: the outer except answers
            [draft_answer |-> DraftErrorAnswer, claims |-> <<>>]
      [] OTHER ->
            [draft_answer |-> IF o.answer = "present" THEN ModelAnswer ELSE FencedText,
             claims |-> IF o.claims = "some" THEN << "claim" >> ELSE <<>>]

\* the branch of draft_node one backend outcome takes
DraftPath(o) ==
    CASE o.kind = "invoke_error" -> "invoke_error"
      [] o.kind = "json_error" -> "json_error"
      [] o.kind = "not_object" -> "not_object"
      [] o.kind = "object" /\ o.claims = "unsized" -> "bad_claims"
      [] OTHER -> "parsed"

Draft ==
    /\ pc = "draft"
    /\ IF retrieved_chunks = <<>>
       THEN /\ draft_answer' = NotFoundAnswer
            /\ claims' = <<>>
            /\ draft_path' = "no_chunks"
            /\ reasoning_trace' =
                   ReduceTrace(reasoning_trace,
                               << TraceEntry("draft", None, None, <<>>, None) >>)
            /\ pc' = "critique"
            /\ UNCHANGED << llm_calls, llm_question, response >>
       ELSE IF ~llm_ok
       THEN \* get_llm() is called before the try: the node raises
            /\ pc' = "done"
            /\ response' = ErrorResponse
            /\ UNCHANGED << draft_answer, claims, reasoning_trace, llm_calls, llm_question,
                            draft_path >>
       ELSE \E o \in DraftOutcomes :
            /\ draft_answer' = DraftResult(o).draft_answer
            /\ draft_path' = DraftPath(o)
            /\ claims' = DraftResult(o).claims
            /\ reasoning_trace' =
                   ReduceTrace(reasoning_trace,
                       << TraceEntry("draft", None, None, <<>>,
                              IF DraftResult(o).draft_answer = DraftErrorAnswer
                              THEN "error" ELSE None) >>)
            /\ llm_calls' = llm_calls + 1
            /\ llm_question' = DraftQuestion(original_query, current_query)
            /\ pc' = "critique"
            /\ UNCHANGED response
    /\ UNCHANGED << ragVars, pairVars, storeVars >>
    /\ UNCHANGED << index_built, config_ok, llm_ok, max_loops, original_query, current_query,
                    retrieved_chunks, all_sources, critique_result, decision,
                    refined_query, gaps, loop_count, final_answer, confidence,
                    retrieve_calls, critique_path >>
    /\ UNCHANGED << search_path, finalize_path, fallback_context >>
    /\ UNCHANGED << search_query, abandoned >>

(***************************************************************************)
(* critique_node                                                           *)
(***************************************************************************)
\* what the critique call can do: llm.invoke raises, or answers with text
\* that is not JSON, JSON that is not an object, or an object with any
\* combination of the fields the node reads
CritiqueOutcomes ==
    [kind : {"invoke_error", "json_error", "not_object"},
     decision : {None}, confidence : {None}, gaps : {"absent"},
     refined_query : {None}]
    \cup
    [kind : {"object"},
     decision : {None, "final", "need_more", "other"},
     confidence : {None, "high", "low", "unsure"},
     gaps : {"absent", "some", "unsized"},
     refined_query : {None, "", Rewritten, "unsliceable"}]

\* the result critique_node substitutes on json.JSONDecodeError
CritiqueJsonDefault ==
    [decision |-> "final", confidence |-> "medium", gaps |-> <<>>,
     refined_query |-> None]

\* variant: the except branch reuses the medium default of the parse fallback
CritiqueOnException_Medium ==
    [decision |-> "final", confidence |-> "medium", gaps |-> <<>>,
     refined_query |-> None]

\* what critique_node returns from its except branch
CritiqueOnException ==
    [decision |-> "final", confidence |-> "low", gaps |-> <<>>,
     refined_query |-> None]

\* variant: the short-circuit reports low confidence
CritiqueNoClaims_Low ==
    [decision |-> "final", confidence |-> "low", gaps |-> <<>>,
     refined_query |-> None]

\* what critique_node returns when there are no claims to check
CritiqueNoClaims ==
    [decision |-> "final", confidence |-> "medium", gaps |-> <<>>,
     refined_query |-> None]

\* variant: the override compares against max_loops instead of max_loops - 1
ForcedDecision_OffByOne(dec, lc, ml) ==
    IF lc >= ml THEN "final" ELSE dec

\* variant: the override is missing
ForcedDecision_Never(dec, lc, ml) == dec

\* "if state['loop_count'] >= state['max_loops'] - 1: decision = 'final'"
ForcedDecision(dec, lc, ml) ==
    IF lc >= ml - 1 THEN "final" ELSE dec

\* the branch of critique_node one backend outcome takes
CritiquePath(o) ==
    CASE o.kind = "invoke_error" -> "exception"
      [] o.kind = "not_object" -> "exception"
      [] o.kind = "json_error" -> "json_error"
      [] o.kind = "object" /\ o.gaps = "unsized" -> "exception"
      [] o.kind = "object" /\ o.refined_query = "unsliceable" -> "exception"
      [] OTHER -> "parsed"

\* the values the result.get(...) calls read from the parsed object
CritiqueFields(o) ==
    IF o.kind = "json_error" THEN CritiqueJsonDefault
    ELSE [decision |-> IF o.decision = None THEN "final" ELSE o.decision,
          confidence |-> IF o.confidence = None THEN "medium" ELSE o.confidence,
          gaps |-> IF o.gaps = "some" THEN << "gap" >> ELSE <<>>,
          refined_query |-> o.refined_query]

\* decision, confidence, gaps, refined_query returned by critique_node
CritiqueReturn(o, lc, ml) ==
    IF CritiquePath(o) = "exception" THEN CritiqueOnException
    ELSE [CritiqueFields(o) EXCEPT
             !.decision = ForcedDecision(CritiqueFields(o).decision, lc, ml)]

\* the 'critique_result' value stored by critique_node (the fields of the
\* backend's own answer that the model keeps)
CritiqueRaw(o) ==
    IF CritiquePath(o) = "exception" THEN [decision |-> None, confidence |-> None]
    ELSE [decision |-> CritiqueFields(o).decision,
          confidence |-> CritiqueFields(o).confidence]

\* variant: the route looks at the round counter only
should_continue_IgnoresDecision(dec, lc, ml) ==
    IF lc < ml THEN "refine" ELSE "finalize"

\* variant: the route never takes the refine edge
should_continue_NeverRefines(dec, lc, ml) == "finalize"

\* should_continue
should_continue(dec, lc, ml) ==
    IF dec = "need_more" /\ lc < ml THEN "refine" ELSE "finalize"

Critique ==
    /\ pc = "critique"
    /\ IF claims = <<>>
       THEN /\ critique_result' = [decision |-> "final", confidence |-> "medium"]
            /\ decision' = CritiqueNoClaims.decision
            /\ refined_query' = CritiqueNoClaims.refined_query
            /\ gaps' = CritiqueNoClaims.gaps
            /\ confidence' = CritiqueNoClaims.confidence
            /\ critique_path' = "no_claims"
            /\ reasoning_trace' =
                   ReduceTrace(reasoning_trace,
                               << TraceEntry("critique", None, None, <<>>, None) >>)
            /\ pc' = should_continue(CritiqueNoClaims.decision, loop_count, max_loops)
            /\ UNCHANGED << llm_calls, llm_question, response >>
       ELSE IF ~llm_ok
       THEN \* get_llm() is called before the try: the node raises
            /\ pc' = "done"
            /\ response' = ErrorResponse
            /\ UNCHANGED << critique_result, decision, refined_query, gaps,
                            confidence, critique_path, reasoning_trace, llm_calls,
                            llm_question >>
       ELSE \E o \in CritiqueOutcomes :
            LET r == CritiqueReturn(o, loop_count, max_loops) IN
            /\ critique_result' = CritiqueRaw(o)
            /\ decision' = r.decision
            /\ refined_query' = r.refined_query
            /\ gaps' = r.gaps
            /\ confidence' = r.confidence
            /\ critique_path' = CritiquePath(o)
            /\ reasoning_trace' =
                   ReduceTrace(reasoning_trace,
                       << TraceEntry("critique", None,
                              IF CritiquePath(o) = "exception" THEN None ELSE r.decision,
                              <<>>,
                              IF CritiquePath(o) = "exception" THEN "error" ELSE None) >>)
            /\ llm_calls' = llm_calls + 1
            /\ llm_question' = CritiqueQuestion(original_query, current_query)
            /\ pc' = should_continue(r.decision, loop_count, max_loops)
            /\ UNCHANGED response
    /\ UNCHANGED << ragVars, pairVars, storeVars >>
    /\ UNCHANGED << index_built, config_ok, llm_ok, max_loops, original_query, current_query,
                    retrieved_chunks, all_sources, draft_answer, claims,
                    loop_count, final_answer, retrieve_calls >>
    /\ UNCHANGED << search_path, draft_path, finalize_path, fallback_context >>
    /\ UNCHANGED << search_query, abandoned >>

(***************************************************************************)
(* refine_query_node                                                       *)
(***************************************************************************)
\* "state.get('refined_query') or state['original_query']"
NewQuery(rq, oq) == IF rq = None \/ rq = "" THEN oq ELSE rq

\* variant: the round counter advances by two
NewLoopCount_ByTwo(lc) == lc + 2

\* "new_loop_count = state['loop_count'] + 1"
NewLoopCount(lc) == lc + 1

\* the log line of refine_query_node slices state.get('refined_query', ''):
\* the key is always present, so a None value is sliced and raises TypeError
RefineLogRaises(rq) == rq = None

Refine ==
    /\ pc = "refine"
    /\ IF RefineLogRaises(refined_query)
       THEN /\ pc' = "done"
            /\ response' = ErrorResponse
            /\ UNCHANGED << current_query, loop_count, reasoning_trace >>
       ELSE /\ current_query' = NewQuery(refined_query, original_query)
            /\ loop_count' = NewLoopCount(loop_count)
            /\ reasoning_trace' =
                   ReduceTrace(reasoning_trace,
                       << TraceEntry("refine_query", None, None,
                                     << NewLoopCount(loop_count) >>, None) >>)
            /\ pc' = "retrieve"
            /\ UNCHANGED response
    /\ UNCHANGED << ragVars, pairVars, storeVars >>
    /\ UNCHANGED << index_built, config_ok, llm_ok, max_loops, original_query,
                    retrieved_chunks, all_sources, draft_answer, claims,
                    critique_result, decision, refined_query, gaps,
                    final_answer, confidence, retrieve_calls, llm_calls,
                    critique_path >>
    /\ UNCHANGED << search_path, draft_path, finalize_path, fallback_context >>
    /\ UNCHANGED << search_query, llm_question, abandoned >>

(***************************************************************************)
(* finalize_node                                                           *)
(***************************************************************************)
\* variant: the draft is kept on the confidence label alone
UseDraft_ConfidenceOnly(conf, gs) == conf \in {"high", "medium"}

\* "state['confidence'] in ['high', 'medium'] or not state['gaps']"
UseDraft(conf, gs) == conf \in {"high", "medium"} \/ gs = <<>>

\* confidence_map.get(state['confidence'], ConfidenceLevel.MEDIUM).value
MapConfidence(conf) ==
    IF conf \in {"high", "medium", "low"} THEN conf ELSE "medium"

\* "context_parts = [c['snippet'] for c in state['all_sources'][:5]]"
FallbackSnippets == 5

FallbackContext(srcs) ==
    SubSeq(srcs, 1, IF Len(srcs) < FallbackSnippets THEN Len(srcs) ELSE FallbackSnippets)

Finalize ==
    /\ pc = "finalize"
    /\ IF UseDraft(confidence, gaps)
       THEN /\ final_answer' = draft_answer
            /\ finalize_path' = "draft"
            /\ UNCHANGED fallback_context
            /\ confidence' = MapConfidence(confidence)
            /\ reasoning_trace' =
                   ReduceTrace(reasoning_trace,
                               << TraceEntry("finalize", None, None, <<>>, None) >>)
            /\ pc' = "end"
            /\ UNCHANGED << llm_calls, llm_question, response >>
       ELSE IF ~llm_ok
       THEN \* get_llm() is called before the try: the node raises
            /\ pc' = "done"
            /\ response' = ErrorResponse
            /\ UNCHANGED << final_answer, confidence, reasoning_trace, llm_calls, llm_question,
                            finalize_path, fallback_context >>
       ELSE \E answered \in BOOLEAN :
            /\ final_answer' = IF answered THEN FallbackText ELSE draft_answer
            /\ finalize_path' = IF answered THEN "fallback" ELSE "fallback_failed"
            /\ fallback_context' = FallbackContext(all_sources)
            /\ confidence' = MapConfidence(confidence)
            /\ reasoning_trace' =
                   ReduceTrace(reasoning_trace,
                               << TraceEntry("finalize", None, None, <<>>, None) >>)
            /\ llm_calls' = llm_calls + 1
            /\ llm_question' = FallbackQuestion(original_query, current_query)
            /\ pc' = "end"
            /\ UNCHANGED response
    /\ UNCHANGED << ragVars, pairVars, storeVars >>
    /\ UNCHANGED << index_built, config_ok, llm_ok, max_loops, original_query, current_query,
                    retrieved_chunks, all_sources, draft_answer, claims,
                    critique_result, decision, refined_query, gaps, loop_count,
                    retrieve_calls, critique_path >>
    /\ UNCHANGED << search_path, draft_path >>
    /\ UNCHANGED << search_query, abandoned >>

(***************************************************************************)
(* agentic_rag_query after graph.invoke returned                           *)
(***************************************************************************)
SourceKey(s) == << s.source, s.chunk_id >>

\* the "seen" loop: keep an entry iff no earlier entry has its key
UniqueSources(srcs) ==
    SelectSeq([i \in 1..Len(srcs) |-> [idx |-> i, src |-> srcs[i]]],
              LAMBDA e : \A j \in 1..(e.idx - 1) :
                            SourceKey(srcs[j]) # SourceKey(e.src))

\* variant: the sources are returned without the "seen" filter
UniqueSourceEntries_NoFilter(srcs) == srcs

\* the entries of unique_sources
UniqueSourceEntries(srcs) ==
    [i \in 1..Len(UniqueSources(srcs)) |-> UniqueSources(srcs)[i].src]

\* safe_trace keeps step, query, decision and loop of every entry
SafeTrace(trace) ==
    [i \in 1..Len(trace) |->
        [step |-> trace[i].step, query |-> trace[i].query,
         decision |-> trace[i].decision, loop |-> trace[i].loop]]

\* "'loops_used': final_state.get('loop_count', 0) + 1"
LoopsUsed(lc) == lc + 1

Respond ==
    /\ pc = "end"
    /\ response' =
          [path |-> "final", answer |-> final_answer,
           sources |-> UniqueSourceEntries(all_sources),
           confidence |-> confidence,
           reasoning_trace |-> SafeTrace(reasoning_trace),
           loops_used |-> LoopsUsed(loop_count)]
    /\ pc' = "done"
    /\ UNCHANGED << ragVars, pairVars, storeVars >>
    /\ UNCHANGED << index_built, config_ok, llm_ok, max_loops, original_query, current_query,
                    retrieved_chunks, all_sources, draft_answer, claims,
                    critique_result, decision, refined_query, gaps, loop_count,
                    final_answer, confidence, reasoning_trace,
                    retrieve_calls, llm_calls, critique_path >>
    /\ UNCHANGED << search_path, draft_path, finalize_path, fallback_context >>
    /\ UNCHANGED << search_query, llm_question, abandoned >>

Next ==
    \/ Start
    \/ Retrieve
    \/ Draft
    \/ Critique
    \/ Refine
    \/ Finalize
    \/ Respond

Spec == Init /\ [][Next]_vars

\* the request runs to completion: no step waits for anything but its backend
FairSpec == Spec /\ WF_vars(Next)

(***************************************************************************)
(* The caller abandons the request.  chat calls agentic_rag_query as a     *)
(* plain synchronous call and graph.invoke runs the nodes one after the    *)
(* other: no node and no edge looks at the connection, so the steps of the *)
(* loop are the same whether or not the caller is still there.             *)
(***************************************************************************)
\* the caller disconnects while the loop is between two steps
Abandon ==
    /\ pc \in {"retrieve", "draft", "critique", "refine", "finalize"}
    /\ ~abandoned
    /\ abandoned' = TRUE
    /\ UNCHANGED << ragVars, pairVars, storeVars >>
    /\ UNCHANGED << pc, config_ok, llm_ok, max_loops, original_query,
                    current_query, retrieved_chunks, all_sources, draft_answer,
                    claims, critique_result, decision, refined_query, gaps,
                    loop_count, final_answer, confidence, reasoning_trace,
                    response, retrieve_calls, llm_calls, critique_path,
                    index_built, search_path, draft_path, finalize_path,
                    fallback_context, search_query, llm_question >>

NextCancel ==
    \/ Start
    \/ Retrieve
    \/ Draft
    \/ Critique
    \/ Refine
    \/ Finalize
    \/ Respond
    \/ Abandon

SpecCancel == Init /\ [][NextCancel]_vars

TypeOK ==
    /\ pc \in {"off", "init", "retrieve", "draft", "critique", "refine",
               "finalize", "end", "done", "raised"}
    /\ max_loops \in 1..MaxLoops
    /\ loop_count \in Nat
    /\ decision \in {"", "final", "need_more", "other"}
    /\ current_query \in {Question, Rewritten}

(***************************************************************************)
(* The single-pass variant: rag_query (sync) and rag_query_stream.  One    *)
(* request; scores are in hundredths (0.7 is 70, 0.25 is 25).  The         *)
(* configuration read by get_rag_config() is drawn well-formed.            *)
(***************************************************************************)
MaxDocs == 3

\* similarity scores a retrieved document can carry
Scores == {10, 30, 70, 80}

\* RAG_MIN_SCORE (default 0.25) and RAG_MIN_SOURCES (default 1)
MinScores == {25, 50}

MinSourcesValues == {1, 2, 4}

AnswerModes == {"strict", "balanced", "creative"}

\* largest number of tokens the generation backend sends for one answer
MaxTokens == 2

\* the tokens the generation backend can send
Tokens == {"t1", "t2"}

\* the answers chain.invoke can return, as lists of pieces
GeneratedTexts == SeqsUpTo(Tokens, MaxTokens)

\* the fixed texts of rag.py, as lists of characters
FallbackChars == << "f1", "f2" >>      \* generate_fallback_response(question, docs)
RagNotFoundChars == << "n1", "n2" >>   \* '抱歉，在知识库中没有找到与您问题相关的内容。...'
NotReadyChars == << "r1", "r2" >>      \* '抱歉，知识库尚未初始化。...'

\* retrieved_docs: what search_similar / search_mmr hand back, best first
RagDocs == SeqsUpTo(Scores, MaxDocs)

RECURSIVE MaxScore(_)
\* max(score for _, score in docs), over a non-empty list
MaxScore(docs) ==
    IF Len(docs) = 1
    THEN docs[1]
    ELSE LET m == MaxScore(Tail(docs))
         IN  IF docs[1] >= m THEN docs[1] ELSE m

RECURSIVE ValidSources(_, _)
\* sum(1 for _, score in docs if score >= min_score)
ValidSources(docs, min_score) ==
    IF docs = <<>>
    THEN 0
    ELSE (IF docs[1] >= min_score THEN 1 ELSE 0)
             + ValidSources(Tail(docs), min_score)

\* variant: HIGH is granted from two valid sources on
calculate_confidence_HighAtTwo(docs, config) ==
    IF docs = <<>>
    THEN [confidence |-> "low", need_fallback |-> TRUE]
    ELSE LET max_score == MaxScore(docs)
             valid_sources == ValidSources(docs, config.min_score)
             need_fallback == max_score < config.min_score
                                  \/ valid_sources < config.min_sources
         IN  [confidence |->
                  IF need_fallback THEN "low"
                  ELSE IF max_score >= 70 /\ valid_sources >= 2 THEN "high"
                  ELSE "medium",
              need_fallback |-> need_fallback]

\* calculate_confidence(docs, config)
calculate_confidence(docs, config) ==
    IF docs = <<>>
    THEN [confidence |-> "low", need_fallback |-> TRUE]
    ELSE LET max_score == MaxScore(docs)
             valid_sources == ValidSources(docs, config.min_score)
             need_fallback == max_score < config.min_score
                                  \/ valid_sources < config.min_sources
         IN  [confidence |->
                  IF need_fallback THEN "low"
                  ELSE IF max_score >= 70 /\ valid_sources >= 3 THEN "high"
                  ELSE IF max_score >= 40 /\ valid_sources >= 2 THEN "medium"
                  ELSE "medium",
              need_fallback |-> need_fallback]

\* variant: strict mode always answers with the template
UseFallback_StrictAlways(need_fallback, answer_mode) ==
    answer_mode = "strict"

\* the test that selects the templated fallback answer
UseFallback(need_fallback, answer_mode) ==
    need_fallback /\ answer_mode = "strict"

\* the loop variables while no agentic request runs
LoopIdle ==
    /\ pc = "off"
    /\ config_ok = TRUE
    /\ llm_ok = TRUE
    /\ max_loops = 1
    /\ original_query = Question
    /\ current_query = Question
    /\ retrieved_chunks = <<>>
    /\ all_sources = <<>>
    /\ draft_answer = ""
    /\ claims = <<>>
    /\ critique_result = [decision |-> None, confidence |-> None]
    /\ decision = ""
    /\ refined_query = None
    /\ gaps = <<>>
    /\ loop_count = 0
    /\ final_answer = ""
    /\ confidence = "medium"
    /\ reasoning_trace = <<>>
    /\ response = NoResponse
    /\ retrieve_calls = 0
    /\ llm_calls = 0
    /\ critique_path = "none"
    /\ index_built = FALSE
    /\ search_path = "none"
    /\ draft_path = "none"
    /\ finalize_path = "none"
    /\ fallback_context = <<>>
    /\ search_query = None
    /\ llm_question = None
    /\ abandoned = FALSE

InitRag ==
    /\ LoopIdle
    /\ PairIdle
    /\ StoreIdle
    /\ rpc = "init"
    /\ r_stream \in BOOLEAN
    /\ r_ready \in BOOLEAN
    /\ r_mode \in AnswerModes
    /\ r_min_score \in MinScores
    /\ r_min_sources \in MinSourcesValues
    /\ r_docs = <<>>
    /\ r_confidence = "none"
    /\ r_need_fallback = FALSE
    /\ r_answer = "none"
    /\ r_result = "none"
    /\ r_search_calls = 0
    /\ r_llm_calls = 0
    /\ r_text = <<>>
    /\ r_pending = <<>>
    /\ r_events = <<>>
    /\ r_sources = <<>>

\* the events rag_query_stream yields
TokenEvent(delta) ==
    [event |-> "token", delta |-> delta, answer |-> <<>>, sources |-> <<>>,
     confidence |-> ""]

EndEvent(full_answer, sources, conf) ==
    [event |-> "end", delta |-> "", answer |-> full_answer, sources |-> sources,
     confidence |-> conf]

ErrorEvent ==
    [event |-> "error", delta |-> "", answer |-> <<>>, sources |-> <<>>,
     confidence |-> ""]

\* extract_sources(docs): one entry per document, in rank order
extract_sources(docs) ==
    [i \in 1..Len(docs) |-> [score |-> docs[i], rank_before |-> i, rank_after |-> i]]

\* rag_query, step 4: "if need_fallback and STRICT: ... else: if not
\* retrieved_docs: ... else: ..."
AnswerSourceSync(need_fallback, answer_mode, docs) ==
    IF UseFallback(need_fallback, answer_mode)
    THEN "fallback"
    ELSE IF docs = <<>> THEN "not_found" ELSE "generated"

\* variant: the streaming function tests the documents before the fallback
AnswerSourceStream_DocsFirst(need_fallback, answer_mode, docs) ==
    IF docs = <<>>
    THEN "not_found"
    ELSE IF UseFallback(need_fallback, answer_mode) THEN "fallback" ELSE "generated"

\* rag_query_stream, step 4: "if need_fallback and STRICT: ... elif not
\* retrieved_docs: ... else: ..."
AnswerSourceStream(need_fallback, answer_mode, docs) ==
    IF UseFallback(need_fallback, answer_mode)
    THEN "fallback"
    ELSE IF docs = <<>>
    THEN "not_found"
    ELSE "generated"

\* the is_vectorstore_ready() test that opens both functions: rag_query
\* returns the not-ready answer, rag_query_stream yields one error event
RagCheckReady ==
    /\ rpc = "init"
    /\ IF r_ready
       THEN /\ rpc' = "retrieve"
            /\ UNCHANGED << r_confidence, r_answer, r_result, r_text, r_events >>
       ELSE /\ rpc' = "done"
            /\ r_answer' = IF r_stream THEN "none" ELSE "not_ready"
            /\ r_confidence' = IF r_stream THEN "none" ELSE "low"
            /\ r_result' = IF r_stream THEN "error" ELSE "returned"
            /\ r_text' = IF r_stream THEN <<>> ELSE NotReadyChars
            /\ r_events' = IF r_stream THEN << ErrorEvent >> ELSE <<>>
    /\ UNCHANGED << r_stream, r_ready, r_mode, r_min_score, r_min_sources,
                    r_docs, r_need_fallback, r_search_calls, r_llm_calls,
                    r_pending >>
    /\ UNCHANGED r_sources
    /\ UNCHANGED << loopVars, pairVars, storeVars >>

\* step 1: search_mmr or search_similar; a search that raises hands back []
RagRetrieve ==
    /\ rpc = "retrieve"
    /\ \E raised \in BOOLEAN, docs \in RagDocs :
           r_docs' = IF raised THEN <<>> ELSE docs
    /\ r_search_calls' = r_search_calls + 1
    /\ rpc' = "evaluate"
    /\ UNCHANGED << r_stream, r_ready, r_mode, r_min_score, r_min_sources,
                    r_confidence, r_need_fallback, r_answer, r_result,
                    r_llm_calls, r_text, r_pending, r_events >>
    /\ UNCHANGED r_sources
    /\ UNCHANGED << loopVars, pairVars, storeVars >>

\* step 2: confidence, need_fallback = calculate_confidence(retrieved_docs, config)
RagEvaluate ==
    /\ rpc = "evaluate"
    /\ LET c == calculate_confidence(r_docs, [min_score |-> r_min_score,
                                              min_sources |-> r_min_sources])
       IN  /\ r_confidence' = c.confidence
           /\ r_need_fallback' = c.need_fallback
    /\ r_sources' = extract_sources(r_docs)
    /\ rpc' = "answer"
    /\ UNCHANGED << r_stream, r_ready, r_mode, r_min_score, r_min_sources,
                    r_docs, r_answer, r_result, r_search_calls, r_llm_calls,
                    r_text, r_pending, r_events >>
    /\ UNCHANGED << loopVars, pairVars, storeVars >>

\* the branch of step 4 the request takes
AnswerSource ==
    IF r_stream
    THEN AnswerSourceStream(r_need_fallback, r_mode, r_docs)
    ELSE AnswerSourceSync(r_need_fallback, r_mode, r_docs)

\* step 4 on: the templated fallback, the fixed not-found text, or
\* generation.  rag_query finishes here, and lets a generation failure
\* propagate; rag_query_stream goes on to send the text piece by piece.
RagAnswer ==
    /\ rpc = "answer"
    /\ IF AnswerSource = "fallback"
       THEN /\ r_answer' = "fallback"
            /\ r_llm_calls' = r_llm_calls
            /\ IF r_stream
               THEN /\ r_pending' = FallbackChars
                    /\ rpc' = "emit"
                    /\ UNCHANGED << r_result, r_text >>
               ELSE /\ r_text' = FallbackChars
                    /\ r_result' = "returned"
                    /\ rpc' = "done"
                    /\ UNCHANGED r_pending
       ELSE IF AnswerSource = "not_found"
       THEN /\ r_answer' = "not_found"
            /\ r_llm_calls' = r_llm_calls
            /\ IF r_stream
               THEN /\ r_pending' = RagNotFoundChars
                    /\ rpc' = "emit"
                    /\ UNCHANGED << r_result, r_text >>
               ELSE /\ r_text' = RagNotFoundChars
                    /\ r_result' = "returned"
                    /\ rpc' = "done"
                    /\ UNCHANGED r_pending
       ELSE /\ r_llm_calls' = r_llm_calls + 1
            /\ UNCHANGED r_pending
            /\ IF r_stream
               THEN /\ rpc' = "generate"
                    /\ UNCHANGED << r_answer, r_result, r_text >>
               ELSE /\ rpc' = "done"
                    /\ \/ \E text \in GeneratedTexts :
                            /\ r_answer' = "generated"
                            /\ r_text' = text
                            /\ r_result' = "returned"
                       \/ /\ r_answer' = "none"
                          /\ r_result' = "raised"
                          /\ UNCHANGED r_text
    /\ UNCHANGED << r_stream, r_ready, r_mode, r_min_score, r_min_sources,
                    r_docs, r_confidence, r_need_fallback, r_search_calls,
                    r_events >>
    /\ UNCHANGED r_sources
    /\ UNCHANGED << loopVars, pairVars, storeVars >>

\* "for char in answer: yield token": one character of a fixed text
RagEmit ==
    /\ rpc = "emit"
    /\ r_pending # <<>>
    /\ r_events' = Append(r_events, TokenEvent(Head(r_pending)))
    /\ r_text' = Append(r_text, Head(r_pending))
    /\ r_pending' = Tail(r_pending)
    /\ UNCHANGED << rpc, r_stream, r_ready, r_mode, r_min_score, r_min_sources,
                    r_docs, r_confidence, r_need_fallback, r_answer, r_result,
                    r_search_calls, r_llm_calls >>
    /\ UNCHANGED r_sources
    /\ UNCHANGED << loopVars, pairVars, storeVars >>

\* "async for token in stream_chat_completion(...)": the backend sends one
\* more token, finishes, or raises; a failure yields an error event and
\* returns without an end event
RagGenerate ==
    /\ rpc = "generate"
    /\ \/ /\ Len(r_text) < MaxTokens
          /\ \E token \in Tokens :
                /\ r_events' = Append(r_events, TokenEvent(token))
                /\ r_text' = Append(r_text, token)
          /\ UNCHANGED << rpc, r_answer, r_result >>
       \/ /\ r_answer' = "generated"
          /\ rpc' = "emit"
          /\ UNCHANGED << r_result, r_text, r_events >>
       \/ /\ r_events' = Append(r_events, ErrorEvent)
          /\ r_result' = "error"
          /\ rpc' = "done"
          /\ UNCHANGED << r_answer, r_text >>
    /\ UNCHANGED << r_stream, r_ready, r_mode, r_min_score, r_min_sources,
                    r_docs, r_confidence, r_need_fallback, r_search_calls,
                    r_llm_calls, r_pending >>
    /\ UNCHANGED r_sources
    /\ UNCHANGED << loopVars, pairVars, storeVars >>

\* step 10: the end event, carrying full_answer
RagEnd ==
    /\ rpc = "emit"
    /\ r_pending = <<>>
    /\ r_events' = Append(r_events, EndEvent(r_text, r_sources, r_confidence))
    /\ r_result' = "end"
    /\ rpc' = "done"
    /\ UNCHANGED << r_stream, r_ready, r_mode, r_min_score, r_min_sources,
                    r_docs, r_confidence, r_need_fallback, r_answer,
                    r_search_calls, r_llm_calls, r_text, r_pending >>
    /\ UNCHANGED r_sources
    /\ UNCHANGED << loopVars, pairVars, storeVars >>

NextRag ==
    \/ RagCheckReady
    \/ RagRetrieve
    \/ RagEvaluate
    \/ RagAnswer
    \/ RagEmit
    \/ RagGenerate
    \/ RagEnd

SpecRag == InitRag /\ [][NextRag]_vars

(***************************************************************************)
(* Two agentic requests at the same time.  Both calls share the module     *)
(* global _agentic_graph; each builds its own initial_state literal and    *)
(* hands it to graph.invoke, which keeps the state of that invocation.     *)
(* The steps of the two invocations interleave in any order.  Each node is *)
(* the function of (state, backend answer) that the actions of the single  *)
(* request apply; the generation client is available.                      *)
(***************************************************************************)
MaxPairLoops == 2

Requests == {1, 2}

\* the question of each request
PairQuestion(r) == IF r = 1 THEN Question ELSE "q2"

\* the backend answers met by the two requests: a few of each kind
PairSearchOutcomes ==
    { [kind |-> "ok", docs |-> << <<"s1", "c1">> >>],
      [kind |-> "ok", docs |-> <<>>],
      [kind |-> "raised", docs |-> << <<"s2", "c1">> >>] }

PairDraftOutcomes ==
    { [kind |-> "object", answer |-> "present", claims |-> "some"],
      [kind |-> "json_error", answer |-> "absent", claims |-> "absent"] }

PairCritiqueOutcomes ==
    { [kind |-> "object", decision |-> "need_more", confidence |-> "low",
       gaps |-> "some", refined_query |-> Rewritten],
      [kind |-> "object", decision |-> "final", confidence |-> "high",
       gaps |-> "absent", refined_query |-> None],
      [kind |-> "object", decision |-> "final", confidence |-> "low",
       gaps |-> "some", refined_query |-> None] }

\* one backend answer; the fields the step does not use keep these values
NoAnswer ==
    [search |-> [kind |-> "not_built", docs |-> <<>>],
     draft |-> [kind |-> "invoke_error", answer |-> "absent", claims |-> "absent"],
     critique |-> [kind |-> "invoke_error", decision |-> None, confidence |-> None,
                   gaps |-> "absent", refined_query |-> None],
     answered |-> FALSE]

\* the backend answers the node at position at can meet
AnswersAt(at) ==
    CASE at = "retrieve" -> { [NoAnswer EXCEPT !.search = o] : o \in PairSearchOutcomes }
      [] at = "draft" -> { [NoAnswer EXCEPT !.draft = o] : o \in PairDraftOutcomes }
      [] at = "critique" -> { [NoAnswer EXCEPT !.critique = o] : o \in PairCritiqueOutcomes }
      [] at = "finalize" -> { [NoAnswer EXCEPT !.answered = b] : b \in BOOLEAN }
      [] OTHER -> { NoAnswer }

\* initial_state of agentic_rag_query
InitialState(question, ml) ==
    [at |-> "retrieve", original_query |-> question, current_query |-> question,
     max_loops |-> ml, retrieved_chunks |-> <<>>, all_sources |-> <<>>,
     draft_answer |-> "", claims |-> <<>>, decision |-> "",
     refined_query |-> None, gaps |-> <<>>, loop_count |-> 0,
     final_answer |-> "", confidence |-> "medium", reasoning_trace |-> <<>>]

\* retrieve_node on state s
RetrieveNode(s, a) ==
    [s EXCEPT
        !.retrieved_chunks = ChunksOf(search(a.search)),
        !.all_sources = ReduceSources(s.all_sources, SourcesOf(search(a.search))),
        !.reasoning_trace =
            ReduceTrace(s.reasoning_trace,
                << TraceEntry("retrieve",
                       RetrieveQuery(s.original_query, s.current_query),
                       None, <<>>, None) >>),
        !.at = "draft"]

\* draft_node on state s
DraftNode(s, a) ==
    IF s.retrieved_chunks = <<>>
    THEN [s EXCEPT
             !.draft_answer = NotFoundAnswer,
             !.claims = <<>>,
             !.reasoning_trace =
                 ReduceTrace(s.reasoning_trace,
                             << TraceEntry("draft", None, None, <<>>, None) >>),
             !.at = "critique"]
    ELSE [s EXCEPT
             !.draft_answer = DraftResult(a.draft).draft_answer,
             !.claims = DraftResult(a.draft).claims,
             !.reasoning_trace =
                 ReduceTrace(s.reasoning_trace,
                     << TraceEntry("draft", None, None, <<>>,
                            IF DraftResult(a.draft).draft_answer = DraftErrorAnswer
                            THEN "error" ELSE None) >>),
             !.at = "critique"]

\* critique_node on state s, followed by the should_continue edge
CritiqueNode(s, a) ==
    LET r == IF s.claims = <<>>
             THEN CritiqueNoClaims
             ELSE CritiqueReturn(a.critique, s.loop_count, s.max_loops)
        failed == s.claims # <<>> /\ CritiquePath(a.critique) = "exception"
    IN  [s EXCEPT
            !.decision = r.decision,
            !.refined_query = r.refined_query,
            !.gaps = r.gaps,
            !.confidence = r.confidence,
            !.reasoning_trace =
                ReduceTrace(s.reasoning_trace,
                    << TraceEntry("critique", None,
                           IF s.claims = <<>> \/ failed THEN None ELSE r.decision,
                           <<>>,
                           IF failed THEN "error" ELSE None) >>),
            !.at = should_continue(r.decision, s.loop_count, s.max_loops)]

\* refine_query_node on state s; the node raises when its log line does
RefineNode(s) ==
    IF RefineLogRaises(s.refined_query)
    THEN [s EXCEPT !.at = "error"]
    ELSE [s EXCEPT
             !.current_query = NewQuery(s.refined_query, s.original_query),
             !.loop_count = NewLoopCount(s.loop_count),
             !.reasoning_trace =
                 ReduceTrace(s.reasoning_trace,
                     << TraceEntry("refine_query", None, None,
                                   << NewLoopCount(s.loop_count) >>, None) >>),
             !.at = "retrieve"]

\* finalize_node on state s
FinalizeNode(s, a) ==
    [s EXCEPT
        !.final_answer = IF UseDraft(s.confidence, s.gaps) \/ ~a.answered
                         THEN s.draft_answer
                         ELSE FallbackText,
        !.confidence = MapConfidence(s.confidence),
        !.reasoning_trace =
            ReduceTrace(s.reasoning_trace,
                        << TraceEntry("finalize", None, None, <<>>, None) >>),
        !.at = "end"]

\* the node at the state's position, applied to one backend answer
NodeStep(s, a) ==
    CASE s.at = "retrieve" -> RetrieveNode(s, a)
      [] s.at = "draft" -> DraftNode(s, a)
      [] s.at = "critique" -> CritiqueNode(s, a)
      [] s.at = "refine" -> RefineNode(s)
      [] s.at = "finalize" -> FinalizeNode(s, a)
      [] OTHER -> s

\* what agentic_rag_query returns for the state graph.invoke ended in
ResponseOf(s) ==
    IF s.at = "error"
    THEN ErrorResponse
    ELSE [path |-> "final", answer |-> s.final_answer,
          sources |-> UniqueSourceEntries(s.all_sources),
          confidence |-> s.confidence,
          reasoning_trace |-> SafeTrace(s.reasoning_trace),
          loops_used |-> LoopsUsed(s.loop_count)]

\* variant: the compiled graph keeps one state for all its invocations
StateOf_Shared(r) == 1

\* the state a graph.invoke call works on: the one built from the
\* initial_state argument of that call
StateOf(r) == r

InitPair ==
    /\ LoopIdle
    /\ RagIdle
    /\ StoreIdle
    /\ p_graph = None
    /\ p_pc = [r \in Requests |-> "init"]
    /\ p_max_loops \in [Requests -> 1..MaxPairLoops]
    /\ p_state = [r \in Requests |-> InitialState("", 1)]
    /\ p_log = [r \in Requests |-> <<>>]
    /\ p_response = [r \in Requests |-> NoResponse]

\* agentic_rag_query up to the first node: get_agentic_graph() compiles the
\* graph once, graph.invoke starts from the call's initial_state
PairStart(r) ==
    /\ p_pc[r] = "init"
    /\ p_graph' = "compiled"
    /\ p_state' = [p_state EXCEPT
                      ![StateOf(r)] = InitialState(PairQuestion(r), p_max_loops[r])]
    /\ p_pc' = [p_pc EXCEPT ![r] = "running"]
    /\ UNCHANGED << p_max_loops, p_log, p_response >>
    /\ UNCHANGED << loopVars, ragVars, storeVars >>

\* one node of request r's invocation runs
PairNode(r) ==
    /\ p_pc[r] = "running"
    /\ p_state[StateOf(r)].at \in {"retrieve", "draft", "critique", "refine", "finalize"}
    /\ \E a \in AnswersAt(p_state[StateOf(r)].at) :
           /\ p_state' = [p_state EXCEPT
                             ![StateOf(r)] = NodeStep(p_state[StateOf(r)], a)]
           /\ p_log' = [p_log EXCEPT ![r] = Append(p_log[r], a)]
    /\ UNCHANGED << p_graph, p_pc, p_max_loops, p_response >>
    /\ UNCHANGED << loopVars, ragVars, storeVars >>

\* graph.invoke returned or raised: agentic_rag_query builds the response
PairRespond(r) ==
    /\ p_pc[r] = "running"
    /\ p_state[StateOf(r)].at \in {"end", "error"}
    /\ p_response' = [p_response EXCEPT ![r] = ResponseOf(p_state[StateOf(r)])]
    /\ p_pc' = [p_pc EXCEPT ![r] = "done"]
    /\ UNCHANGED << p_graph, p_max_loops, p_state, p_log >>
    /\ UNCHANGED << loopVars, ragVars, storeVars >>

NextPair ==
    \/ \E r \in Requests : PairStart(r)
    \/ \E r \in Requests : PairNode(r)
    \/ \E r \in Requests : PairRespond(r)

SpecPair == InitPair /\ [][NextPair]_vars

(***************************************************************************)
(* The vector store of app/vectorstore: the module globals _vectorstore    *)
(* and _is_ready, the persisted directory, and the functions that read or  *)
(* write them.  Each action is one call, with what its backend and         *)
(* filesystem steps do drawn from the outcomes below.                      *)
(***************************************************************************)
\* the score given to an item whose lookup failed or returned nothing (0.5)
DefaultScore == 50

\* the Chroma handles: one opened on the persisted directory, one built by
\* Chroma.from_documents
Handles == {"loaded", "created"}

\* what a get_vectorstore call can meet: get_chroma_dir raises, get_embeddings
\* raises, Chroma(...) raises, _collection.count() raises, or every step works
GetOutcomes == {"dir_raises", "embeddings_raise", "chroma_raises",
                "count_raises", "ok"}

\* what a create_vectorstore call can meet; left_behind tells whether
\* chroma.sqlite3 exists after a step that failed part-way
CreateOutcomes ==
    [kind : {"dir_raises", "embeddings_raise", "rmtree_raises",
             "from_documents_raises", "index_raises", "ok"},
     left_behind : BOOLEAN]

\* what ingest_documents can meet before create_vectorstore: no documents in
\* the knowledge directory (ValueError), a failing split, or chunks to index
LoadOutcomes == {"no_documents", "split_raises", "chunks"}

\* one secondary lookup of search_mmr: similarity_search_with_score raises,
\* returns nothing, or returns a score
LookupOutcomes ==
    [kind : {"raised", "empty"}, score : {0}] \cup [kind : {"ok"}, score : Scores]

\* what the backend does in a search_mmr call: max_marginal_relevance_search
\* raises or selects docs; then the query embedding and one lookup per doc
MmrOutcomes ==
    { m \in [kind : {"raised", "ok"},
             docs : SearchResults,
             embed : {"raised", "ok"},
             lookups : SeqsUpTo(LookupOutcomes, MaxTopK)] :
        Len(m.lookups) = Len(m.docs) }

\* what the backend does in a search_similar call
SimilarOutcomes ==
    { o \in [kind : {"raised", "ok"},
             docs : SearchResults,
             scores : SeqsUpTo(Scores, MaxTopK)] :
        Len(o.scores) = Len(o.docs) }

Globals(vs, ready, persisted, path) ==
    [vectorstore |-> vs, is_ready |-> ready, persisted |-> persisted,
     path |-> path]

\* variant: the except branch clears the handle and leaves the flag as the
\* failing step found it
get_vectorstore_KeepsFlag(vs, ready, persisted, o) ==
    IF vs # None THEN Globals(vs, ready, persisted, "cached")
    ELSE IF o = "dir_raises" THEN Globals(vs, ready, persisted, "raised")
    ELSE IF o = "embeddings_raise" THEN Globals(None, ready, persisted, "failed")
    ELSE IF persisted
         THEN IF o = "chroma_raises"
              THEN Globals(None, ready, persisted, "failed")
              ELSE IF o = "count_raises"
                   THEN Globals(None, TRUE, persisted, "failed_after_load")
                   ELSE Globals("loaded", TRUE, persisted, "loaded")
    ELSE Globals(None, FALSE, persisted, "absent")

\* get_vectorstore: the handle if there is one; else the persisted directory
\* is opened, and any failure inside the try clears both globals
get_vectorstore(vs, ready, persisted, o) ==
    IF vs # None THEN Globals(vs, ready, persisted, "cached")
    ELSE IF o = "dir_raises" THEN Globals(vs, ready, persisted, "raised")
    ELSE IF o = "embeddings_raise" THEN Globals(None, FALSE, persisted, "failed")
    ELSE IF persisted
         THEN IF o = "chroma_raises"
              THEN Globals(None, FALSE, persisted, "failed")
              ELSE IF o = "count_raises"
                   THEN Globals(None, FALSE, persisted, "failed_after_load")
                   ELSE Globals("loaded", TRUE, persisted, "loaded")
    ELSE Globals(None, FALSE, persisted, "absent")

\* create_vectorstore: nothing is caught.  The globals are written only once
\* Chroma.from_documents has returned, the handle first and the flag next
\* with no failing step between them; update_chunks_index runs after both
create_vectorstore(vs, ready, persisted, o) ==
    CASE o.kind \in {"dir_raises", "embeddings_raise"} ->
             Globals(vs, ready, persisted, "raised")
      [] o.kind = "rmtree_raises" ->
             Globals(vs, ready, persisted /\ o.left_behind, "raised")
      [] o.kind = "from_documents_raises" ->
             Globals(vs, ready, o.left_behind, "raised")
      [] o.kind = "index_raises" ->
             Globals("created", TRUE, TRUE, "raised_after_create")
      [] OTHER ->
             Globals("created", TRUE, TRUE, "created")

\* reset_vectorstore
reset_vectorstore(persisted) == Globals(None, FALSE, persisted, "reset")

\* is_vectorstore_ready: "if not _is_ready: get_vectorstore()"
is_vectorstore_ready(vs, ready, persisted, o) ==
    IF ~ready THEN get_vectorstore(vs, ready, persisted, o)
    ELSE Globals(vs, ready, persisted, "ready")

\* ingest_documents: reset_vectorstore, load and split, create_vectorstore
ingest_documents(persisted, l, o) ==
    IF l # "chunks" THEN Globals(None, FALSE, persisted, "raised")
    ELSE create_vectorstore(None, FALSE, persisted, o)

\* search_similar once get_vectorstore has answered with vs
search_similar(vs, o) ==
    IF vs = None THEN <<>>
    ELSE IF o.kind = "raised" THEN <<>>
    ELSE [i \in 1..Len(o.docs) |-> [doc |-> o.docs[i], score |-> o.scores[i]]]

\* the score search_mmr gives one selected document
LookupScore(l) == IF l.kind = "ok" THEN l.score ELSE DefaultScore

\* search_mmr once get_vectorstore has answered with vs: the selection, then,
\* if it is not empty, get_embeddings().embed_query(query) inside the outer
\* try only, then one guarded lookup per selected document
search_mmr(vs, m) ==
    IF vs = None THEN <<>>
    ELSE IF m.kind = "raised" THEN <<>>
    ELSE IF m.docs = <<>> THEN <<>>
    ELSE IF m.embed = "raised" THEN <<>>
    ELSE [i \in 1..Len(m.docs) |->
             [doc |-> m.docs[i], score |-> LookupScore(m.lookups[i])]]

\* the module as imported: no handle, not ready; the persisted directory may
\* be there from an earlier process
InitStore ==
    /\ LoopIdle
    /\ RagIdle
    /\ PairIdle
    /\ s_vectorstore = None
    /\ s_is_ready = FALSE
    /\ s_persisted \in BOOLEAN
    /\ s_last = NoCall
    /\ s_results = <<>>
    /\ s_mmr = NoMmr

SetGlobals(op, g) ==
    /\ s_vectorstore' = g.vectorstore
    /\ s_is_ready' = g.is_ready
    /\ s_persisted' = g.persisted
    /\ s_last' = [op |-> op, path |-> g.path]

StoreGet ==
    /\ \E o \in GetOutcomes :
         SetGlobals("get_vectorstore",
                    get_vectorstore(s_vectorstore, s_is_ready, s_persisted, o))
    /\ s_results' = <<>>
    /\ s_mmr' = NoMmr
    /\ UNCHANGED << loopVars, ragVars, pairVars >>

StoreCreate ==
    /\ \E o \in CreateOutcomes :
         SetGlobals("create_vectorstore",
                    create_vectorstore(s_vectorstore, s_is_ready, s_persisted, o))
    /\ s_results' = <<>>
    /\ s_mmr' = NoMmr
    /\ UNCHANGED << loopVars, ragVars, pairVars >>

StoreReset ==
    /\ SetGlobals("reset_vectorstore", reset_vectorstore(s_persisted))
    /\ s_results' = <<>>
    /\ s_mmr' = NoMmr
    /\ UNCHANGED << loopVars, ragVars, pairVars >>

StoreIsReady ==
    /\ \E o \in GetOutcomes :
         SetGlobals("is_vectorstore_ready",
                    is_vectorstore_ready(s_vectorstore, s_is_ready, s_persisted, o))
    /\ s_results' = <<>>
    /\ s_mmr' = NoMmr
    /\ UNCHANGED << loopVars, ragVars, pairVars >>

StoreIngest ==
    /\ \E l \in LoadOutcomes, o \in CreateOutcomes :
         SetGlobals("ingest_documents", ingest_documents(s_persisted, l, o))
    /\ s_results' = <<>>
    /\ s_mmr' = NoMmr
    /\ UNCHANGED << loopVars, ragVars, pairVars >>

\* search_similar: get_vectorstore outside the try, the backend call inside
StoreSearchSimilar ==
    /\ \E g \in GetOutcomes, o \in SimilarOutcomes :
         LET got == get_vectorstore(s_vectorstore, s_is_ready, s_persisted, g) IN
         /\ SetGlobals("search_similar", got)
         /\ s_results' = IF got.path = "raised" THEN <<>>
                         ELSE search_similar(got.vectorstore, o)
    /\ s_mmr' = NoMmr
    /\ UNCHANGED << loopVars, ragVars, pairVars >>

\* search_mmr: get_vectorstore outside the try, every backend call inside
StoreSearchMmr ==
    /\ \E g \in GetOutcomes, m \in MmrOutcomes :
         LET got == get_vectorstore(s_vectorstore, s_is_ready, s_persisted, g) IN
         /\ SetGlobals("search_mmr", got)
         /\ s_results' = IF got.path = "raised" THEN <<>>
                         ELSE search_mmr(got.vectorstore, m)
         /\ s_mmr' = IF got.path = "raised" \/ got.vectorstore = None
                     THEN NoMmr ELSE m
    /\ UNCHANGED << loopVars, ragVars, pairVars >>

NextStore ==
    \/ StoreGet
    \/ StoreCreate
    \/ StoreReset
    \/ StoreIsReady
    \/ StoreIngest
    \/ StoreSearchSimilar
    \/ StoreSearchMmr

SpecStore == InitStore /\ [][NextStore]_vars

(***************************************************************************)
(* Properties.                                                             *)
(***************************************************************************)
IsPrefix(s, t) ==
    /\ Len(s) <= Len(t)
    /\ \A i \in 1..Len(s) : s[i] = t[i]

\* C1: for every max_loops >= 1 and every sequence of retrieval, draft and
\* critique outcomes, a run performs at most max_loops + 1 RETRIEVE passes and
\* then reaches FINALIZE and done: with the generation client available, a
\* finished request has made at most max_loops + 1 retrieval calls and its
\* response is the one built after FINALIZE.
C1_BoundedPassesThenFinalize ==
    /\ retrieve_calls <= max_loops + 1
    /\ (pc = "done" /\ llm_ok => response.path = "final")

\* C2: every response returned by agentic_rag_query, on the normal and on the
\* error path, satisfies 1 <= loops_used <= max_loops + 1.
C2_LoopsUsedBounds ==
    pc = "done" =>
        /\ 1 <= response.loops_used
        /\ response.loops_used <= max_loops + 1

\* C3: when the critique backend answers need_more in a round whose round
\* counter equals max_loops - 1, the decision recorded and routed on is final:
\* the step after that CRITIQUE is FINALIZE, never REFINE.
C3_ForcedFinal ==
    ( /\ pc \in {"refine", "finalize"}
      /\ critique_path = "parsed"
      /\ critique_result.decision = "need_more"
      /\ loop_count = max_loops - 1 )
    => (decision = "final" /\ pc = "finalize")

C3_Witness ==
    /\ pc = "finalize"
    /\ critique_path = "parsed"
    /\ critique_result.decision = "need_more"
    /\ loop_count = max_loops - 1
    /\ loop_count >= 1
    /\ decision = "final"

\* C4: the round counter starts at 0, stays within 0..max_loops, and is
\* changed only by REFINE, by exactly +1 (so it never decreases).
C4_RoundCounter ==
    /\ loop_count = 0
    /\ [](loop_count >= 0 /\ loop_count <= max_loops)
    /\ [][ \/ loop_count' = loop_count
           \/ (pc = "refine" /\ loop_count' = loop_count + 1) ]_vars

C4_Witness ==
    /\ pc = "retrieve"
    /\ loop_count = 2

\* C5: once CRITIQUE has recorded decision final, the only steps that follow
\* are FINALIZE and the return of the response, and the recorded decision
\* stays final.
C5_FinalNotRevisited ==
    [][ decision = "final" =>
            /\ pc \in {"finalize", "end"}
            /\ pc' \in {"end", "done"}
            /\ decision' = "final"
            /\ retrieve_calls' = retrieve_calls
            /\ loop_count' = loop_count
            /\ draft_answer' = draft_answer
            /\ critique_path' = critique_path ]_vars

C5_Witness ==
    /\ pc = "done"
    /\ decision = "final"
    /\ response.path = "final"
    /\ loop_count >= 1

\* the all_sources entries retrieve_node builds for the chunks of one pass
EntriesOf(chunks) ==
    [i \in 1..Len(chunks) |->
        [source |-> chunks[i].source, chunk_id |-> chunks[i].chunk_id, rank |-> i]]

\* C6: the accumulated evidence only grows: RETRIEVE appends the results of
\* its pass in order, every other step leaves all_sources as it is, so an
\* earlier value is a prefix of every later one and the evidence CRITIQUE
\* reads ends with the results of the current round, after those of all
\* earlier rounds.
C6_EvidenceGrows ==
    /\ [][ /\ IsPrefix(all_sources, all_sources')
           /\ (pc = "retrieve" =>
                  all_sources' = all_sources \o EntriesOf(retrieved_chunks'))
           /\ (pc # "retrieve" => all_sources' = all_sources) ]_vars
    /\ [](pc \in {"draft", "critique"} =>
            /\ Len(all_sources) >= Len(retrieved_chunks)
            /\ SubSeq(all_sources,
                      Len(all_sources) - Len(retrieved_chunks) + 1,
                      Len(all_sources)) = EntriesOf(retrieved_chunks))

C6_Witness ==
    /\ pc = "critique"
    /\ loop_count = 1
    /\ claims # <<>>
    /\ retrieved_chunks # <<>>
    /\ Len(all_sources) > Len(retrieved_chunks)

\* position of the first entry of ev with the (source, chunk_id) pair of e
FirstIndex(ev, e) ==
    CHOOSE n \in DOMAIN ev :
        /\ ev[n].source = e.source /\ ev[n].chunk_id = e.chunk_id
        /\ \A m \in 1..(n - 1) :
              ~(ev[m].source = e.source /\ ev[m].chunk_id = e.chunk_id)

\* C7: the sources of a response built after FINALIZE hold no two entries
\* with the same (source, chunk_id), hold every pair of the accumulated
\* evidence, and are the first occurrences of the pairs, in that order.
C7_SourcesDeduplicated ==
    (pc = "done" /\ response.path = "final") =>
        LET out == response.sources
            ev == all_sources
        IN /\ \A i, j \in DOMAIN out :
                 (out[i].source = out[j].source /\ out[i].chunk_id = out[j].chunk_id)
                    => i = j
           /\ \A n \in DOMAIN ev : \E i \in DOMAIN out :
                 out[i].source = ev[n].source /\ out[i].chunk_id = ev[n].chunk_id
           /\ \A i \in DOMAIN out :
                 \E n \in DOMAIN ev : ev[n].source = out[i].source
                                        /\ ev[n].chunk_id = out[i].chunk_id
           /\ \A i \in DOMAIN out : out[i] = ev[FirstIndex(ev, out[i])]
           /\ \A i, j \in DOMAIN out :
                 i < j => FirstIndex(ev, out[i]) < FirstIndex(ev, out[j])

C7_Witness ==
    /\ pc = "done"
    /\ response.path = "final"
    /\ Len(response.sources) = 2
    /\ Len(all_sources) >= 4

\* C8: agentic_rag_query never raises to its caller: any failure while
\* handling a request yields a response with confidence low, no sources and
\* a trace entry recording the error.
C8_NeverRaises ==
    /\ pc # "raised"
    /\ (pc = "done" /\ response.path = "error" =>
            /\ response.confidence = "low"
            /\ response.sources = <<>>
            /\ \E i \in DOMAIN response.reasoning_trace :
                  response.reasoning_trace[i].step = "error")

\* C9: when the critique step raises in any round, the critique result is
\* decision final with confidence low, the run goes to FINALIZE without
\* another RETRIEVE, and the caller receives a response with confidence low.
C9_CritiqueExceptionFailsSafe ==
    critique_path = "exception" =>
        /\ decision = "final"
        /\ confidence = "low"
        /\ gaps = <<>>
        /\ pc \in {"finalize", "end", "done"}
        /\ retrieve_calls = loop_count + 1
        /\ (pc = "done" =>
              response.path = "final" /\ response.confidence = "low")

C9_Witness ==
    /\ pc = "done"
    /\ critique_path = "exception"
    /\ loop_count >= 1
    /\ response.path = "final"
    /\ response.confidence = "low"

\* C10: when the critique backend returns output that cannot be parsed as
\* the expected structure, the critique result is decision final with
\* confidence low, in every round and for every max_loops.
C10_UnparseableFailsSafeLow ==
    (pc \in {"refine", "finalize"} /\ critique_path = "json_error") =>
        (decision = "final" /\ confidence = "low")

\* C11: when the draft backend's response is not parseable as the expected
\* {answer, claims} structure (not valid JSON, or JSON that is not an object),
\* DRAFT sets the draft answer to the raw response text and the claim list to
\* empty, and the round continues to CRITIQUE.
C11_UnparseableDraftIsRawText ==
    (pc = "critique" /\ draft_path \in {"json_error", "not_object"}) =>
        (draft_answer = RawText /\ claims = <<>>)

\* C12: whenever the draft's claim list is empty, CRITIQUE makes no
\* generation-backend call and yields decision final, confidence medium and
\* no gaps, and the run goes on to FINALIZE, in every round.
C12_NoClaimsShortCircuit ==
    [][ (pc = "critique" /\ claims = <<>>) =>
            /\ llm_calls' = llm_calls
            /\ decision' = "final"
            /\ confidence' = "medium"
            /\ gaps' = <<>>
            /\ pc' = "finalize" ]_vars

C12_Witness ==
    /\ pc = "finalize"
    /\ critique_path = "no_claims"
    /\ draft_path = "parsed"
    /\ loop_count >= 1
    /\ confidence = "medium"

\* the first five entries of the accumulated evidence, or all of them
IsFirstFive(ctx, ev) ==
    /\ Len(ctx) <= 5
    /\ IsPrefix(ctx, ev)
    /\ (Len(ev) <= 5 => Len(ctx) = Len(ev))
    /\ (Len(ev) > 5 => Len(ctx) = 5)

C14_DegradedIsLow ==
    ( /\ pc = "done"
      /\ \/ draft_path \in {"json_error", "invoke_error", "not_object", "bad_claims"}
         \/ critique_path \in {"exception", "json_error", "no_claims"}
         \/ finalize_path = "fallback"
         \/ response.path = "error" )
    => response.confidence = "low"

\* C15: producing a fallback answer never invokes the generation backend:
\* when FINALIZE does not keep the draft, it makes no generation call.
C15_FallbackWithoutGeneration ==
    [][ ( /\ pc = "finalize"
          /\ ~(confidence \in {"high", "medium"} \/ gaps = <<>>) )
        => llm_calls' = llm_calls ]_vars

\* C16: if the RETRIEVE pass of round 0 returns no results, the run returns
\* loops_used = 1, confidence low and the fixed not-found answer.
C16_EmptyRoundZero ==
    (pc = "done" /\ retrieve_calls >= 1 /\ all_sources = <<>>) =>
        /\ response.loops_used = 1
        /\ response.confidence = "low"
        /\ response.answer = NotFoundAnswer

\* C17: when the vector index is not ready, the loop variant answers at once
\* with the please-ingest message: no RETRIEVE, DRAFT or CRITIQUE step runs
\* and no retrieval or generation call is made.
C17_NotReadyNoLoop ==
    ~index_built =>
        /\ pc \in {"init", "raised", "done"}
        /\ retrieve_calls = 0
        /\ llm_calls = 0
        /\ (pc = "done" => response.answer = NotReadyAnswer)

\* the number of retrieved documents scoring at least min_score
ValidCount(docs, min_score) ==
    Cardinality({i \in DOMAIN docs : docs[i] >= min_score})

\* the result stated for calculate_confidence, case by case
StatedConfidence(docs, min_score, min_sources) ==
    IF \/ docs = <<>>
       \/ \A i \in DOMAIN docs : docs[i] < min_score
       \/ ValidCount(docs, min_score) < min_sources
    THEN [confidence |-> "low", need_fallback |-> TRUE]
    ELSE IF /\ \E i \in DOMAIN docs : docs[i] >= 70
            /\ ValidCount(docs, min_score) >= 3
    THEN [confidence |-> "high", need_fallback |-> FALSE]
    ELSE [confidence |-> "medium", need_fallback |-> FALSE]

\* C18: for every evidence list and every policy (min_score, min_sources),
\* calculate_confidence returns (LOW, true) if the evidence is empty, or the
\* best score is below min_score, or fewer than min_sources items score at
\* least min_score; otherwise (HIGH, false) if the best score is at least 0.7
\* and at least 3 items score at least min_score; otherwise (MEDIUM, false).
C18_ConfidenceTable ==
    rpc \in {"answer", "done"} /\ r_search_calls = 1 =>
        [confidence |-> r_confidence, need_fallback |-> r_need_fallback]
            = StatedConfidence(r_docs, r_min_score, r_min_sources)

\* the case named in C18: best score 0.8, three items at or above
\* min_score = 0.25, min_sources <= 3, evaluated as (HIGH, false)
C18_Witness ==
    /\ rpc = "answer"
    /\ Len(r_docs) = 3
    /\ \E i \in DOMAIN r_docs : r_docs[i] = 80
    /\ \A i \in DOMAIN r_docs : r_docs[i] >= 25 /\ r_docs[i] <= 80
    /\ r_min_score = 25
    /\ r_min_sources <= 3
    /\ r_confidence = "high"
    /\ r_need_fallback = FALSE

\* C19: in the single-pass variant, sync and streaming, whenever the
\* Confidence Evaluator returned needs_fallback = true for a request, the
\* generation backend is not invoked for that request, in every answer mode.
C19_FallbackGatesGeneration ==
    r_need_fallback => r_llm_calls = 0

\* C19 as the code has it: the Confidence Evaluator gates generation in strict
\* mode only.  With needs_fallback = true and answer mode strict the
\* generation backend is not invoked; a finished request that was evaluated
\* has invoked it exactly once when documents were retrieved and not
\* (needs_fallback and strict), and not at all otherwise.
C19_StrictGatesGeneration ==
    /\ r_llm_calls \in {0, 1}
    /\ (r_need_fallback /\ r_mode = "strict") => r_llm_calls = 0
    /\ (rpc = "done" /\ r_search_calls = 1) =>
           (r_llm_calls = 1 <=>
                (r_docs # <<>> /\ ~(r_need_fallback /\ r_mode = "strict")))

\* a streaming request in strict mode whose documents all score below the
\* threshold ends with the templated answer and no generation call
C19_Witness ==
    /\ rpc = "done"
    /\ r_stream
    /\ r_mode = "strict"
    /\ r_need_fallback
    /\ r_docs # <<>>
    /\ r_answer = "fallback"
    /\ r_result = "end"
    /\ r_llm_calls = 0

C21_TraceAppendOnly ==
    [][ reasoning_trace' # reasoning_trace =>
            /\ Len(reasoning_trace') = Len(reasoning_trace) + 1
            /\ IsPrefix(reasoning_trace, reasoning_trace') ]_vars

\* C25: a request that does not take the error path executes
\* (RETRIEVE, DRAFT, CRITIQUE, REFINE)^n, RETRIEVE, DRAFT, CRITIQUE, FINALIZE:
\* it enters RETRIEVE with the original query and round 0; RETRIEVE is
\* followed by DRAFT, DRAFT by CRITIQUE, CRITIQUE by REFINE exactly when the
\* recorded decision is need_more and round < max_loops and by FINALIZE
\* otherwise, REFINE by RETRIEVE, and FINALIZE by the response.
C25_StepSequence ==
    [][ /\ (pc = "init" /\ pc' # "raised") =>
               /\ pc' = "retrieve"
               /\ current_query' = original_query'
               /\ loop_count' = 0
        /\ pc = "retrieve" => pc' = "draft"
        /\ (pc = "draft" /\ response' = NoResponse) => pc' = "critique"
        /\ (pc = "critique" /\ response' = NoResponse) =>
               pc' = IF decision' = "need_more" /\ loop_count < max_loops
                     THEN "refine" ELSE "finalize"
        /\ (pc = "refine" /\ response' = NoResponse) => pc' = "retrieve"
        /\ (pc = "finalize" /\ response' = NoResponse) => pc' = "end"
        /\ pc = "end" => (pc' = "done" /\ response'.path = "final") ]_vars

\* a run with n = 2: three RETRIEVE passes, one of them empty, then FINALIZE
C25_Witness ==
    /\ pc = "done"
    /\ response.path = "final"
    /\ loop_count = 2
    /\ retrieve_calls = 3
    /\ retrieved_chunks = <<>>
    /\ finalize_path = "draft"

\* C26: every REFINE step sets the current query to the latest critique's
\* refined query when one was supplied and to the original query when none
\* was (absent, null or empty), increments the round counter by exactly 1 and
\* is followed by RETRIEVE; a need_more critique without a refined query
\* never ends the request with the error response.
C26_RefineFallsBackToOriginal ==
    [][ pc = "refine" =>
            /\ pc' = "retrieve"
            /\ response' = NoResponse
            /\ loop_count' = loop_count + 1
            /\ current_query' = IF refined_query \in {None, ""}
                                THEN original_query
                                ELSE refined_query ]_vars

\* C27: in every round DRAFT skips the Answer Drafter and substitutes the
\* fixed not-found answer exactly when the accumulated evidence is empty; a
\* later round whose own RETRIEVE pass returned nothing still drafts from the
\* evidence of the earlier rounds.
C27_DraftSkipsOnEmptyEvidence ==
    [][ (pc = "draft" /\ response' = NoResponse) =>
            /\ (draft_path' = "no_chunks") <=> (all_sources = <<>>)
            /\ (all_sources = <<>>) =>
                   (draft_answer' = NotFoundAnswer /\ llm_calls' = llm_calls)
            /\ (all_sources # <<>>) => llm_calls' = llm_calls + 1 ]_vars

\* C28: for max_loops >= 1 CRITIQUE routes to REFINE only while
\* loop_count < max_loops - 1, so a run performs at most max_loops RETRIEVE
\* passes, loop_count never exceeds max_loops - 1, a successful response has
\* loops_used <= max_loops, and the route after CRITIQUE is REFINE exactly
\* when the recorded decision is need_more: the loop_count < max_loops guard
\* of should_continue never changes it.
C28_TighterBound ==
    /\ retrieve_calls <= max_loops
    /\ loop_count <= max_loops - 1
    /\ pc = "refine" => loop_count < max_loops - 1
    /\ pc \in {"refine", "finalize"} =>
           ((pc = "refine") <=> (decision = "need_more"))
    /\ (pc = "done" /\ response.path = "final") =>
           response.loops_used <= max_loops

\* a run that used all its passes: max_loops = 3, three RETRIEVE passes
C28_Witness ==
    /\ pc = "done"
    /\ response.path = "final"
    /\ max_loops = 3
    /\ retrieve_calls = 3
    /\ response.loops_used = 3
    /\ decision = "final"
    /\ critique_path = "parsed"
    /\ critique_result.decision = "need_more"

\* C30: whenever FINALIZE takes its fallback branch (the latest critique's
\* confidence is neither high nor medium and gaps were reported), the
\* confidence reported in the response is low, for every confidence label the
\* critique backend can return.
C30_FallbackReportsLow ==
    (pc = "done" /\ finalize_path \in {"fallback", "fallback_failed"}) =>
        response.confidence = "low"

\* C29: no step modifies the original query and only REFINE modifies the
\* current retrieval query; RETRIEVE hands the current query to the search
\* and is the only step that reads it; DRAFT, CRITIQUE and the fallback of
\* FINALIZE hand the original query to the generation backend.
C29_QueryFrame ==
    [][ /\ original_query' = original_query
        /\ current_query' # current_query => (pc = "refine" /\ pc' = "retrieve")
        /\ retrieve_calls' # retrieve_calls =>
               (pc = "retrieve" /\ search_query' = current_query)
        /\ llm_calls' # llm_calls =>
               /\ pc \in {"draft", "critique", "finalize"}
               /\ llm_question' = original_query
        /\ search_query' # search_query => pc = "retrieve" ]_vars

\* a round whose retrieval query was rewritten, drafted from the original
\* question
C29_Witness ==
    /\ pc = "critique"
    /\ loop_count >= 1
    /\ current_query = Rewritten
    /\ search_query = Rewritten
    /\ original_query = Question
    /\ llm_question = Question
    /\ draft_path = "parsed"

\* the deltas of the token events among the first n events
RECURSIVE DeltasOf(_, _)
DeltasOf(events, n) ==
    IF n = 0
    THEN <<>>
    ELSE IF events[n].event = "token"
         THEN Append(DeltasOf(events, n - 1), events[n].delta)
         ELSE DeltasOf(events, n - 1)

\* C22: every event sequence the streaming variant emits is zero or more
\* token events followed by exactly one terminal summary event whose answer
\* is the concatenation of the emitted token deltas, and nothing follows the
\* terminal event.
C22_TokensThenSummary ==
    /\ (r_stream /\ rpc = "done") =>
           /\ r_events # <<>>
           /\ r_events[Len(r_events)].event = "end"
           /\ r_events[Len(r_events)].answer = DeltasOf(r_events, Len(r_events))
    /\ \A i \in 1..(Len(r_events) - 1) : r_events[i].event = "token"

\* C24: once the caller has abandoned a request between two steps of the
\* loop, no further retrieval or generation backend call is issued for it.
C24_NoCallsAfterAbandon ==
    [][ abandoned =>
            /\ retrieve_calls' = retrieve_calls
            /\ llm_calls' = llm_calls ]_vars

RECURSIVE RunAlone(_, _)
\* the state a request reaches when it runs alone and meets the backend
\* answers of log, one node after the other
RunAlone(s, log) ==
    IF log = <<>>
    THEN s
    ELSE RunAlone(NodeStep(s, Head(log)), Tail(log))

\* the state of request r had it run alone against the answers it received
AloneState(r) ==
    RunAlone(InitialState(PairQuestion(r), p_max_loops[r]), p_log[r])

C31_ConfidenceEnum ==
    pc = "done" =>
        /\ response.confidence \in {"high", "medium", "low"}
        /\ critique_result.confidence \in {"high", "medium", "low"} =>
               response.confidence = critique_result.confidence

\* the answer source stated for both single-pass variants
StatedSource(need_fallback, answer_mode, docs) ==
    IF need_fallback /\ answer_mode = "strict" THEN "fallback"
    ELSE IF docs = <<>> THEN "not_found"
    ELSE "generated"

\* the confidence and the sources a finished single-pass request reported:
\* the fields of the returned dict, or those of the end event
ReportedConfidence ==
    IF r_stream THEN r_events[Len(r_events)].confidence ELSE r_confidence

ReportedSources ==
    IF r_stream THEN r_events[Len(r_events)].sources ELSE r_sources

\* C34: with the index ready and the generation backend succeeding, the
\* streaming and the synchronous single-pass variants are equivalent for
\* every combination of retrieval results, answer mode and policy: each
\* takes the templated fallback iff needs_fallback and the mode is strict,
\* else the fixed not-found text iff no documents were retrieved, else
\* generation, and each reports the confidence of the Confidence Evaluator
\* and one source per retrieved document in rank order, so a streaming and
\* a synchronous request with the same inputs agree on all three.
C34_StreamEqualsSync ==
    (rpc = "done" /\ r_ready /\ r_result \in {"returned", "end"}) =>
        /\ r_answer = StatedSource(r_need_fallback, r_mode, r_docs)
        /\ ReportedConfidence =
               StatedConfidence(r_docs, r_min_score, r_min_sources).confidence
        /\ Len(ReportedSources) = Len(r_docs)
        /\ \A i \in DOMAIN r_docs :
               /\ ReportedSources[i].score = r_docs[i]
               /\ ReportedSources[i].rank_before = i

\* a streaming request in strict mode with no documents: ended with the end
\* event after the templated fallback, as the synchronous variant answers
C34_Witness ==
    /\ rpc = "done"
    /\ r_stream
    /\ r_ready
    /\ r_mode = "strict"
    /\ r_docs = <<>>
    /\ r_result = "end"
    /\ r_answer = "fallback"
    /\ r_events[Len(r_events)].confidence = "low"
    /\ r_text = FallbackChars

\* C32: after any sequence of get_vectorstore, create_vectorstore,
\* reset_vectorstore, is_vectorstore_ready, ingest_documents and search
\* calls, including calls whose backend or filesystem step fails part-way,
\* the readiness flag agrees with the handle: _is_ready is true if and only
\* if _vectorstore is not None.
C32_FlagAgreesWithHandle ==
    s_is_ready <=> (s_vectorstore # None)

\* a get_vectorstore call opened the persisted directory, set both globals,
\* failed at the document count, and left both cleared
C32_Witness ==
    /\ s_last = [op |-> "get_vectorstore", path |-> "failed_after_load"]
    /\ s_persisted
    /\ s_vectorstore = None
    /\ ~s_is_ready

\* C33: in mmr mode, when the backend has selected documents, a failed or
\* empty score lookup for a selected item never fails or empties the call:
\* search_mmr returns exactly one (document, score) pair per selected
\* document, in the backend's selection order, with the default score 0.5
\* for each item whose lookup failed or returned nothing.
C33_OnePairPerSelected ==
    (s_last.op = "search_mmr" /\ s_mmr.kind = "ok" /\ s_mmr.docs # <<>>) =>
        /\ Len(s_results) = Len(s_mmr.docs)
        /\ \A i \in DOMAIN s_results :
               /\ s_results[i].doc = s_mmr.docs[i]
               /\ s_mmr.lookups[i].kind \in {"raised", "empty"} =>
                      s_results[i].score = DefaultScore

====
